---- MODULE Spec2Model ----
(***************************************************************************)
(* A model of scripts/mm12_gene_abundance.py: the estimate of per-gene     *)
(* relative abundance in an MM12 community from a strain-by-sample table   *)
(* and one prokka annotation file per strain.                              *)
(*                                                                         *)
(* Text that the script splits or compares character by character (the     *)
(* fields of an annotation row) is a sequence of one-character strings.    *)
(* Names that it only compares whole (samples, strains, cells of the       *)
(* abundance table) are strings.  A path is the sequence of its pieces:    *)
(* directory, base name, extension.  Python floats are modelled as exact   *)
(* rationals <<numerator, denominator>> in lowest terms: IEEE rounding is  *)
(* outside this model.                                                     *)
(***************************************************************************)
EXTENDS Integers, Sequences, FiniteSets, TLC

VARIABLES
    argv_type,      \* the value given to --annotation-type on the command line, or NoValue
    relab_file,     \* content of the abundance table: [header, lines]
    annotations_dir,\* the annotations directory: strain base name -> rows of <name>.tsv
    pc,             \* position of main
    args_type,      \* args.annotation_type after parsing
    warned,         \* strains for which check_files called E.warn
    opened,         \* the inputs read so far: "relab", "glob", or the path of an annotation file
    relab,          \* the dictionary read_relab returned
    si,             \* index of the sample the outer loop is at
    ti,             \* index of the strain the inner loop is at
    gene_relabs,    \* sample -> (identifier -> accumulated abundance)
    error,          \* the exception that ended the run, or NoError
    outfile,        \* the tables written to --outfile: none, or one
    a_data,         \* one split annotation line handed to Annotation(...)
    a_type,         \* the annotation_type build_annotation was called with
    annotation,     \* the Annotation objects constructed from a_data: none, or one
    appended        \* the list build_annotation appended to for that line

mainvars == <<argv_type, relab_file, annotations_dir, pc, args_type, warned, opened,
              relab, si, ti, gene_relabs, error, outfile>>
annotvars == <<a_data, a_type, annotation, appended>>
vars == <<mainvars, annotvars>>

-----------------------------------------------------------------------------
(* Bounds of the model *)

\* rows of one annotation file
MaxRows == 2
\* characters of a gene symbol drawn for Annotation.__init__
MaxGeneLen == 4

-----------------------------------------------------------------------------
(* Text *)

NoValue == "<no value>"
NoError == [exc |-> "none", line |-> 0]

s_gene == <<"g", "e", "n", "e">>
s_unannotated_gene ==
    <<"u", "n", "a", "n", "n", "o", "t", "a", "t", "e", "d", "_", "g", "e", "n", "e">>
s_unannotated_ec ==
    <<"u", "n", "a", "n", "n", "o", "t", "a", "t", "e", "d", "_", "e", "c">>
s_unannotated_cog ==
    <<"u", "n", "a", "n", "n", "o", "t", "a", "t", "e", "d", "_", "c", "o", "g">>
s_unannotated_gene_product ==
    <<"u", "n", "a", "n", "n", "o", "t", "a", "t", "e", "d", "_", "g", "e", "n", "e",
      "_", "p", "r", "o", "d", "u", "c", "t">>

\* str.split(sep) for a one-character separator: the pieces between the separators,
\* one more than there are separators
RECURSIVE SplitFrom(_, _, _, _)
SplitFrom(s, sep, k, cur) ==
    IF k > Len(s) THEN <<cur>>
    ELSE IF s[k] = sep THEN <<cur>> \o SplitFrom(s, sep, k + 1, <<>>)
    ELSE SplitFrom(s, sep, k + 1, Append(cur, s[k]))

Split(s, sep) == SplitFrom(s, sep, 1, <<>>)

-----------------------------------------------------------------------------
(* class Annotation *)

\* self.gene after __init__, from the gene argument
AnnotationGene(gene) ==
    LET g1 == IF gene = <<>> THEN s_unannotated_gene ELSE gene
    IN  IF Len(Split(g1, "_")) = 2 THEN Split(g1, "_")[1] ELSE g1

\* Annotation(locus_tag, ftype, length, gene, ec, cog, product)
Annotation(locus_tag, ftype, length, gene, ec, cog, product) ==
    [locus_tag |-> locus_tag,
     ftype     |-> ftype,
     length    |-> length,
     gene      |-> AnnotationGene(gene),
     ec        |-> IF ec = <<>> THEN s_unannotated_ec ELSE ec,
     cog       |-> IF cog = <<>> THEN s_unannotated_cog ELSE cog,
     product   |-> IF product = <<>> THEN s_unannotated_gene_product ELSE product]

AnnotationTypes == {"gene", "ko", "cog"}

\* what build_annotation appends for one Annotation object
Selected(a, annotation_type) ==
    CASE annotation_type = "gene" -> a.gene
      [] annotation_type = "ko"   -> a.ec
      [] annotation_type = "cog"  -> a.cog

-----------------------------------------------------------------------------
(* Numbers: float(x) is a rational <<n, d>> in lowest terms, d > 0 *)

RECURSIVE Gcd(_, _)
Gcd(a, b) == IF b = 0 THEN a ELSE Gcd(b, a % b)

Norm(n, d) == LET g == Gcd(n, d) IN IF n = 0 THEN <<0, 1>> ELSE <<n \div g, d \div g>>

RatAdd(x, y) == Norm(x[1] * y[2] + y[1] * x[2], x[2] * y[2])

\* x / float(n) for an integer n > 0
RatDivInt(x, n) == Norm(x[1], x[2] * n)

\* k * x for a natural number k
RatMulInt(x, k) == Norm(x[1] * k, x[2])

Zero == <<0, 1>>

\* The cells of the abundance table that float() accepts, with their values
FloatValue ==
    [c \in {"0", "0.4", "0.6"} |->
        CASE c = "0"   -> <<0, 1>>
          [] c = "0.4" -> <<2, 5>>
          [] c = "0.6" -> <<3, 5>>]

\* float(cell) raises ValueError on any other text
Parsable(cell) == cell \in DOMAIN FloatValue

Float(cell) == FloatValue[cell]

-----------------------------------------------------------------------------
(* Dictionaries: the keys in insertion order, and the mapping *)

EmptyDict == [keys |-> <<>>, map |-> <<>>]

InSeq(x, s) == \E k \in 1..Len(s) : s[k] = x

HasKey(d, k) == InSeq(k, d.keys)

\* d[k] = v
DictPut(d, k, v) ==
    IF HasKey(d, k)
    THEN [keys |-> d.keys, map |-> [x \in DOMAIN d.map |-> IF x = k THEN v ELSE d.map[x]]]
    ELSE [keys |-> Append(d.keys, k), map |-> (k :> v) @@ d.map]

-----------------------------------------------------------------------------
(* read_relab *)

\* The mutation: a strain is recorded only under the samples where its cell is not "0"
PutCellNonZero(sample_dict, sample, strain, cell) ==
    LET inner == IF HasKey(sample_dict, sample) THEN sample_dict.map[sample] ELSE EmptyDict
    IN  IF cell = "0" THEN sample_dict
        ELSE DictPut(sample_dict, sample, DictPut(inner, strain, cell))

\* sample_dict[sample][strain] = cell, sample_dict a defaultdict(dict)
PutCell(sample_dict, sample, strain, cell) ==
    LET inner == IF HasKey(sample_dict, sample) THEN sample_dict.map[sample] ELSE EmptyDict
    IN  DictPut(sample_dict, sample, DictPut(inner, strain, cell))

\* for i in range(1, len(samples)): sample_dict[samples[i]][strain] = data[i]
\* (i is Python's index; the sequences here start at 1)
RECURSIVE ReadLine(_, _, _, _)
ReadLine(sample_dict, samples, data, i) ==
    IF i >= Len(samples) THEN [ok |-> TRUE, dict |-> sample_dict]
    ELSE IF i + 1 > Len(data) THEN [ok |-> FALSE, dict |-> sample_dict]
    ELSE ReadLine(PutCell(sample_dict, samples[i + 1], data[1], data[i + 1]),
                  samples, data, i + 1)

RECURSIVE ReadLines(_, _, _, _)
ReadLines(sample_dict, samples, lines, k) ==
    IF k > Len(lines) THEN [ok |-> TRUE, dict |-> sample_dict]
    ELSE LET r == ReadLine(sample_dict, samples, lines[k], 1)
         IN  IF r.ok THEN ReadLines(r.dict, samples, lines, k + 1) ELSE r

\* read_relab(relab_file): ok is FALSE when a line has fewer cells than the header
\* (IndexError at data[i])
read_relab(file) == ReadLines(EmptyDict, file.header, file.lines, 1)

-----------------------------------------------------------------------------
(* Paths and the annotations directory *)

DirName == "annotations"
Ext == ".tsv"

\* glob.glob(annotations_dir + "/*.tsv")
Glob(dir) == {<<DirName, name, Ext>> : name \in DOMAIN dir}

\* x.replace(".tsv", "")
ReplaceTsv(path) == SelectSeq(path, LAMBDA piece : piece # Ext)

\* os.path.basename(x)
Basename(path) == Tail(path)

\* A cell of the table, as text to compare with a path: one piece, as no strain
\* name drawn here holds a "/"
Text(cell) == <<cell>>

-----------------------------------------------------------------------------
(* check_files *)

\* annotation_files = [x.replace(".tsv", "") for x in glob.glob(annotations_dir + "/*.tsv")]
CheckFilesList(dir) == {ReplaceTsv(x) : x \in Glob(dir)}

\* The strains check_files warns about, in order: the loop breaks at the first one
RECURSIVE CheckFilesFrom(_, _, _)
CheckFilesFrom(lines, annotation_files, k) ==
    IF k > Len(lines) THEN <<>>
    ELSE IF Text(lines[k][1]) \notin annotation_files THEN <<lines[k][1]>>
    ELSE CheckFilesFrom(lines, annotation_files, k + 1)

check_files(file, dir) == CheckFilesFrom(file.lines, CheckFilesList(dir), 1)

-----------------------------------------------------------------------------
(* build_annotation and get_number_of_genes *)

\* The list build_annotation collects from the lines of one file, or the failure:
\* Annotation(data[0], ..., data[6]) raises IndexError on a line of fewer than 7 fields
RECURSIVE BuildFrom(_, _, _, _)
BuildFrom(rows, annotation_type, k, acc) ==
    IF k > Len(rows) THEN [ok |-> TRUE, list |-> acc]
    ELSE IF Len(rows[k]) < 7 THEN [ok |-> FALSE, list |-> acc]
    ELSE LET data == rows[k]
             a == Annotation(data[1], data[2], data[3], data[4], data[5], data[6], data[7])
         IN  BuildFrom(rows, annotation_type, k + 1, Append(acc, Selected(a, annotation_type)))

\* The mutation: annotations[strain] exists before the first line is read, so an
\* empty file yields {strain: []}
BuildAnnotationKeyFirst(rows, strain, annotation_type) ==
    LET r == BuildFrom(rows, annotation_type, 1, <<>>)
    IN  [ok |-> r.ok, annotations |-> DictPut(EmptyDict, strain, r.list)]

\* build_annotation(infile, annotation_type) past its assert: the dictionary
\* {strain: list}, which has no key at all when the file has no line
build_annotation(rows, strain, annotation_type) ==
    LET r == BuildFrom(rows, annotation_type, 1, <<>>)
    IN  [ok |-> r.ok,
         annotations |-> IF r.list = <<>> THEN EmptyDict ELSE DictPut(EmptyDict, strain, r.list)]

\* list(annotations.values())
Values(d) == [k \in 1..Len(d.keys) |-> d.map[d.keys[k]]]

\* The mutation: the lines that hold the column names are not counted
NumberOfGenesNoHeader(annotations) ==
    IF Values(annotations) = <<>> THEN [ok |-> FALSE, n |-> 0]
    ELSE [ok |-> TRUE, n |-> Len(SelectSeq(Values(annotations)[1], LAMBDA g : g # s_gene))]

\* get_number_of_genes(annotations): IndexError on an empty dictionary
get_number_of_genes(annotations) ==
    IF Values(annotations) = <<>> THEN [ok |-> FALSE, n |-> 0]
    ELSE [ok |-> TRUE, n |-> Len(Values(annotations)[1])]

-----------------------------------------------------------------------------
(* The aggregation loop of main *)

Fail(exc, line) == [exc |-> exc, line |-> line]

\* gene_relabs[sample], gene_relabs a defaultdict(dict)
Row(gr, sample) == IF sample \in DOMAIN gr THEN gr[sample] ELSE <<>>

\* The mutation: the share replaces the total instead of being added to it
AddShareOverwrite(gr, sample, g, share) ==
    (sample :> ((g :> share) @@ Row(gr, sample))) @@ gr

\* The mutation: the KeyError of a first occurrence is swallowed and nothing is stored
AddShareNoFirst(gr, sample, g, share) ==
    LET row == Row(gr, sample)
    IN  IF g \in DOMAIN row
        THEN (sample :> [row EXCEPT ![g] = RatAdd(@, share)]) @@ gr
        ELSE (sample :> row) @@ gr

\* try: gene_relabs[sample][g] = gene_relabs[sample][g] + share
\* except KeyError: gene_relabs[sample][g] = share
AddShare(gr, sample, g, share) ==
    LET row == Row(gr, sample)
        new == IF g \in DOMAIN row
               THEN [row EXCEPT ![g] = RatAdd(@, share)]
               ELSE (g :> share) @@ row
    IN  (sample :> new) @@ gr

\* if g == "gene": continue
Skipped(g) == g = s_gene

\* for g in list(annotation.values())[0]: ...   float(relab) raises ValueError on the
\* first identifier that is not skipped; gene_relabs[sample] exists from then on
RECURSIVE Accumulate(_, _, _, _, _, _)
Accumulate(gr, sample, list, cell, ngenes, k) ==
    IF k > Len(list) THEN [ok |-> TRUE, gene_relabs |-> gr]
    ELSE IF Skipped(list[k]) THEN Accumulate(gr, sample, list, cell, ngenes, k + 1)
    ELSE IF ~Parsable(cell)
         THEN [ok |-> FALSE, gene_relabs |-> (sample :> Row(gr, sample)) @@ gr]
    ELSE Accumulate(AddShare(gr, sample, list[k], RatDivInt(Float(cell), ngenes)),
                    sample, list, cell, ngenes, k + 1)

\* One pass of the body of the inner loop, for (sample, strain) with abundance cell:
\* the exception it raises or NoError, gene_relabs after it, and the file it opened
ProcessPair(gr, sample, strain, cell, annotation_type, dir) ==
    LET found == {x \in Glob(dir) : ReplaceTsv(Basename(x)) = Text(strain)}
        none  == [error |-> NoError, gene_relabs |-> gr, opened |-> {}]
    IN  IF found = {} THEN [none EXCEPT !.error = Fail("IndexError", 246)]
        ELSE IF annotation_type \notin AnnotationTypes
        THEN [none EXCEPT !.error = Fail("AssertionError", 151)]
        ELSE
        LET path == CHOOSE x \in found : TRUE
            b    == build_annotation(dir[path[2]], strain, annotation_type)
            n    == get_number_of_genes(b.annotations)
            read == [none EXCEPT !.opened = {path}]
        IN  IF ~b.ok THEN [read EXCEPT !.error = Fail("IndexError", 158)]
            ELSE IF ~n.ok THEN [read EXCEPT !.error = Fail("IndexError", 176)]
            ELSE
            LET acc == Accumulate(gr, sample, Values(b.annotations)[1], cell, n.n, 1)
            IN  IF ~acc.ok
                THEN [read EXCEPT !.error = Fail("ValueError", 256),
                                  !.gene_relabs = acc.gene_relabs]
                ELSE [read EXCEPT !.gene_relabs = acc.gene_relabs]

\* The two loops as a whole, from the j-th strain of the i-th sample on: gene_relabs
\* after them, or the failure of the pair that raised
RECURSIVE LoopFrom(_, _, _, _, _, _)
LoopFrom(gr, rl, dir, annotation_type, i, j) ==
    IF i > Len(rl.keys) THEN [ok |-> TRUE, gene_relabs |-> gr]
    ELSE LET sample == rl.keys[i]
             strain_relab == rl.map[sample]
         IN  IF j > Len(strain_relab.keys)
             THEN LoopFrom(gr, rl, dir, annotation_type, i + 1, 1)
             ELSE LET strain == strain_relab.keys[j]
                      r == ProcessPair(gr, sample, strain, strain_relab.map[strain],
                                       annotation_type, dir)
                  IN  IF r.error # NoError
                      THEN [ok |-> FALSE, gene_relabs |-> r.gene_relabs]
                      ELSE LoopFrom(r.gene_relabs, rl, dir, annotation_type, i, j + 1)

-----------------------------------------------------------------------------
(* main *)

CurSample == relab.keys[si]
CurStrains == relab.map[CurSample]
CurStrain == CurStrains.keys[ti]
CurCell == CurStrains.map[CurStrain]

\* E.start(parser, argv): argparse refuses a value outside choices and exits; an
\* option that is not given keeps its default, None, which choices does not check
ParseArgs ==
    /\ pc = "start"
    /\ IF argv_type = NoValue \/ argv_type \in AnnotationTypes
       THEN /\ args_type' = argv_type
            /\ pc' = "check_files"
            /\ error' = error
       ELSE /\ args_type' = args_type
            /\ pc' = "failed"
            /\ error' = Fail("SystemExit", 222)
    /\ UNCHANGED <<argv_type, relab_file, annotations_dir, warned, opened, relab, si, ti,
                   gene_relabs, outfile, annotvars>>

\* check_files(args.relab, args.annotations_dir)
CheckFiles ==
    /\ pc = "check_files"
    /\ warned' = check_files(relab_file, annotations_dir)
    /\ opened' = opened \cup {<<"relab">>, <<"glob">>}
    /\ pc' = "read_relab"
    /\ UNCHANGED <<argv_type, relab_file, annotations_dir, args_type, relab, si, ti,
                   gene_relabs, error, outfile, annotvars>>

\* relab = read_relab(args.relab); annotation_files = glob.glob(...); gene_relabs = {}
\* The loops start at the first strain of the first sample, if there is one
ReadRelab ==
    /\ pc = "read_relab"
    /\ LET r == read_relab(relab_file)
       IN  IF ~r.ok
           THEN /\ pc' = "failed"
                /\ error' = Fail("IndexError", 105)
                /\ opened' = opened \cup {<<"relab">>}
                /\ UNCHANGED <<relab, si, ti>>
           ELSE /\ relab' = r.dict
                /\ opened' = opened \cup {<<"relab">>, <<"glob">>}
                /\ si' = 1
                /\ ti' = 1
                /\ pc' = IF r.dict.keys = <<>> THEN "write" ELSE "loop"
                /\ error' = error
    /\ UNCHANGED <<argv_type, relab_file, annotations_dir, args_type, warned,
                   gene_relabs, outfile, annotvars>>

\* The body of the inner loop for the current (sample, strain), then the step of the
\* two loops to the next pair, or out of them
AggregatePair ==
    /\ pc = "loop"
    /\ LET r == ProcessPair(gene_relabs, CurSample, CurStrain, CurCell, args_type,
                            annotations_dir)
       IN  /\ gene_relabs' = r.gene_relabs
           /\ opened' = opened \cup r.opened
           /\ error' = r.error
           /\ IF r.error # NoError
              THEN pc' = "failed" /\ UNCHANGED <<si, ti>>
              ELSE IF ti < Len(CurStrains.keys)
              THEN pc' = pc /\ si' = si /\ ti' = ti + 1
              ELSE IF si < Len(relab.keys)
              THEN pc' = pc /\ si' = si + 1 /\ ti' = 1
              ELSE pc' = "write" /\ UNCHANGED <<si, ti>>
    /\ UNCHANGED <<argv_type, relab_file, annotations_dir, args_type, warned, relab,
                   outfile, annotvars>>

\* df = pd.DataFrame(gene_relabs); df.to_csv(args.outfile, ...); E.stop()
WriteOutput ==
    /\ pc = "write"
    /\ outfile' = Append(outfile, gene_relabs)
    /\ pc' = "done"
    /\ UNCHANGED <<argv_type, relab_file, annotations_dir, args_type, warned, opened,
                   relab, si, ti, gene_relabs, error, annotvars>>

Next == ParseArgs \/ CheckFiles \/ ReadRelab \/ AggregatePair \/ WriteOutput

-----------------------------------------------------------------------------
(* The inputs *)

alr == <<"a", "l", "r">>
luxS == <<"l", "u", "x", "S">>

\* One line of a prokka table, split at the tabs
Line(gene, ec, cog) == <<<<"t">>, <<"C", "D", "S">>, <<"9">>, gene, ec, cog, <<"p">>>>

alrLine == Line(alr, <<"5">>, <<"C", "7">>)
luxSLine == Line(luxS, <<"4">>, <<"C", "8">>)
\* the column names prokka writes as the first line of its table
headerLine == Line(s_gene, <<"E", "C">>, <<"C", "O", "G">>)
\* a line without tabs
shortLine == <<<<"t">>>>

StrainNames == {"KB1", "YL32"}

\* The files of at most MaxRows lines drawn from kinds, of at least lo lines
Files(kinds, lo) == UNION {[1..n -> kinds] : n \in lo..MaxRows}

\* The directories holding a file for each strain of some set in present
Dirs(present, files) == UNION {[D -> files] : D \in present}

\* The sequences without repetition over a set of names
Orders(names) ==
    UNION {{o \in [1..n -> names] : \A a, b \in 1..n : a # b => o[a] # o[b]} :
           n \in 0..Cardinality(names)}

\* The abundance tables with one of the headers, a line for each strain of one of the
\* orders and a cell from cells under every sample
Tables(headers, orders, cells) ==
    UNION {UNION {{[header |-> h,
                    lines  |-> [k \in 1..Len(o) |-> <<o[k]>> \o c[k]]] :
                   c \in [1..Len(o) -> [1..(Len(h) - 1) -> cells]]} :
                  o \in orders} :
           h \in headers}

\* The tables whose last line lacks its last cell
Truncated(tables) ==
    {[header |-> t.header,
      lines  |-> [k \in 1..Len(t.lines) |->
                    IF k = Len(t.lines)
                    THEN SubSeq(t.lines[k], 1, Len(t.lines[k]) - 1)
                    ELSE t.lines[k]]] :
     t \in {u \in tables : Len(u.lines) > 0 /\ Len(u.header) > 1}}

InitMain(types, tables, dirs) ==
    /\ argv_type \in types
    /\ relab_file \in tables
    /\ annotations_dir \in dirs
    /\ pc = "start"
    /\ args_type = NoValue
    /\ warned = <<>>
    /\ opened = {}
    /\ relab = EmptyDict
    /\ si = 0
    /\ ti = 0
    /\ gene_relabs = <<>>
    /\ error = NoError
    /\ outfile = <<>>
    /\ a_data = <<>>
    /\ a_type = NoValue
    /\ annotation = <<>>
    /\ appended = <<>>

\* Runs over every kind of input, the faulty ones included
Init ==
    InitMain({"gene", "foo", NoValue},
             LET t == Tables({<<"strain">>, <<"strain", "s1">>}, Orders(StrainNames),
                             {"0.6", "0", "abc"})
             IN  t \cup Truncated(t),
             Dirs(SUBSET StrainNames, Files({alrLine, headerLine, shortLine}, 0)))

Spec == Init /\ [][Next]_vars

\* Runs over well-formed inputs: every strain has an annotation file with a line
InitAgg ==
    InitMain({"gene"},
             Tables({<<"strain", "s1">>}, {<<"KB1">>, <<"KB1", "YL32">>}, {"0.6", "0.4"})
             \cup Tables({<<"strain", "s1", "s2">>}, {<<"KB1">>, <<"KB1", "YL32">>},
                         {"0.6", "0"}),
             Dirs({StrainNames}, Files({alrLine, luxSLine, headerLine}, 1)))

SpecAgg == InitAgg /\ [][Next]_vars

-----------------------------------------------------------------------------
(* Annotation.__init__ and the choice of build_annotation, on one line *)

GeneAlphabet == {"a", "_", "2"}

\* The gene symbols of at most MaxGeneLen characters
GeneSymbols == UNION {[1..n -> GeneAlphabet] : n \in 0..MaxGeneLen}

InitAnnot ==
    /\ a_data \in {Line(g, ec, cog) :
                   g \in GeneSymbols, ec \in {<<>>, <<"5">>}, cog \in {<<>>, <<"C">>}}
    /\ a_type \in AnnotationTypes
    /\ annotation = <<>>
    /\ appended = <<>>
    /\ pc = "line"
    /\ argv_type = NoValue
    /\ relab_file = [header |-> <<>>, lines |-> <<>>]
    /\ annotations_dir = <<>>
    /\ args_type = NoValue
    /\ warned = <<>>
    /\ opened = {}
    /\ relab = EmptyDict
    /\ si = 0
    /\ ti = 0
    /\ gene_relabs = <<>>
    /\ error = NoError
    /\ outfile = <<>>

\* annotation = Annotation(data[0], data[1], data[2], data[3], data[4], data[5], data[6])
NewAnnotation ==
    /\ pc = "line"
    /\ annotation' = <<Annotation(a_data[1], a_data[2], a_data[3], a_data[4], a_data[5],
                                  a_data[6], a_data[7])>>
    /\ pc' = "select"
    /\ UNCHANGED <<argv_type, relab_file, annotations_dir, args_type, warned, opened,
                   relab, si, ti, gene_relabs, error, outfile, a_data, a_type, appended>>

\* annotations[strain].append(annotation.gene), or .ec, or .cog
AppendSelected ==
    /\ pc = "select"
    /\ appended' = Append(appended, Selected(annotation[1], a_type))
    /\ pc' = "appended"
    /\ UNCHANGED <<argv_type, relab_file, annotations_dir, args_type, warned, opened,
                   relab, si, ti, gene_relabs, error, outfile, a_data, a_type, annotation>>

NextAnnot == NewAnnotation \/ AppendSelected

SpecAnnot == InitAnnot /\ [][NextAnnot]_vars

-----------------------------------------------------------------------------
(* Claims about Annotation *)

\* C4: constructing an Annotation from a line whose gene field is empty yields a
\* record whose gene is exactly "unannotated_gene", and with annotation type gene
\* that is the identifier appended for the line.
C4_EmptyGeneIsPlaceholder ==
    (a_data # <<>> /\ a_data[4] = <<>>) =>
        /\ annotation # <<>> => annotation[1].gene = s_unannotated_gene
        /\ (appended # <<>> /\ a_type = "gene") => appended = <<s_unannotated_gene>>

Digits == {"0", "1", "2", "3", "4", "5", "6", "7", "8", "9"}

Numeric(text) == text # <<>> /\ \A k \in 1..Len(text) : text[k] \in Digits

\* <base>_<n>: exactly two segments, the second one a number
HasNumericSuffix(gene) ==
    LET parts == Split(gene, "_") IN Len(parts) = 2 /\ Numeric(parts[2])

\* C5: a gene symbol that is not empty is cut to its first segment exactly when it
\* has the form <base>_<n>, two segments with a numeric second one; every other
\* symbol that is not empty is left as it is.
C5_CutOnlyNumericSuffix ==
    (annotation # <<>> /\ a_data[4] # <<>>) =>
        annotation[1].gene = IF HasNumericSuffix(a_data[4])
                             THEN Split(a_data[4], "_")[1]
                             ELSE a_data[4]

-----------------------------------------------------------------------------
(* Claims about the run as a whole *)

\* The (sample, strain) pairs of the table read_relab returned
Pairs == {p \in (DOMAIN relab.map) \X StrainNames : HasKey(relab.map[p[1]], p[2])}

Listed(t) == \E s \in DOMAIN relab.map : HasKey(relab.map[s], t)

HasFile(t) == t \in DOMAIN annotations_dir

Finished == pc \in {"write", "done"}

\* The loop is at a strain whose annotation file has no line
AtEmptyFile == pc = "loop" /\ HasFile(CurStrain) /\ annotations_dir[CurStrain] = <<>>

\* C6: when the aggregation reaches a strain whose annotation file has no line, the
\* run ends there in a fatal error, whatever the abundance of the strain (0 too); the
\* strain is never skipped and no total is recorded for it, so no run gets past the
\* loops with such a strain in the table.
C6_EmptyFileIsFatal ==
    /\ [][AtEmptyFile =>
            /\ pc' = "failed"
            /\ error' # NoError
            /\ gene_relabs' = gene_relabs
            /\ outfile' = <<>>]_vars
    /\ [](Finished => \A t \in StrainNames :
                        (Listed(t) /\ HasFile(t)) => annotations_dir[t] # <<>>)

\* A run that stopped at the second strain of a sample, of abundance 0, on its empty
\* file, after the first strain was aggregated
C6_Witness ==
    /\ pc = "failed"
    /\ error = Fail("IndexError", 176)
    /\ ti = 2
    /\ CurCell = "0"
    /\ annotations_dir[CurStrain] = <<>>
    /\ gene_relabs # <<>>

\* An annotation line has the seven fields Annotation(...) takes
WellFormed(t) == \A k \in 1..Len(annotations_dir[t]) : Len(annotations_dir[t][k]) >= 7

\* C7: the output file is written only after every (sample, strain) pair has been
\* aggregated without error: with a strain that has no annotation file, an
\* annotation line of fewer than seven fields, an annotation file without lines or
\* an abundance cell that is no number, the run ends and nothing is written.
C7_NoOutputAfterFatalCondition ==
    outfile # <<>> =>
        /\ pc = "done"
        /\ error = NoError
        /\ \A p \in Pairs :
              /\ HasFile(p[2])
              /\ WellFormed(p[2])
              /\ annotations_dir[p[2]] # <<>>
              /\ Parsable(relab.map[p[1]].map[p[2]])

\* The strains named in the lines of the table
Named == {relab_file.lines[k][1] : k \in 1..Len(relab_file.lines)}

Warned == {warned[k] : k \in 1..Len(warned)}

\* C8: check_files never ends the run, and it warns about exactly the strains named
\* in the table that have no <strain>.tsv in the annotations directory: about every
\* one of them, and about no strain whose file is there.
C8_WarnsExactlyMissing ==
    <<"glob">> \in opened =>
        Warned = {t \in Named : ~HasFile(t)}

\* C9: a run whose annotation type is none of gene, ko and cog (a value such as
\* "foo", or no value) is refused with a fatal error before the abundance table or
\* any annotation file is read.
C9_BadTypeRefusedBeforeReading ==
    argv_type \notin AnnotationTypes =>
        /\ pc \in {"start", "failed"}
        /\ pc = "failed" => error = Fail("SystemExit", 222)
        /\ opened = {}
        /\ outfile = <<>>

-----------------------------------------------------------------------------
(* Claims about the aggregation *)

\* The identifier build_annotation takes from one line
Identifier(line, annotation_type) ==
    Selected(Annotation(line[1], line[2], line[3], line[4], line[5], line[6], line[7]),
             annotation_type)

\* n_t: the lines of the annotation file of strain t
NumLines(t) == Len(annotations_dir[t])

\* k_t(g): the lines of the file of t whose identifier is g
NumWith(t, g) ==
    Cardinality({k \in 1..NumLines(t) : Identifier(annotations_dir[t][k], args_type) = g})

\* The sum over the strains listed under s, from the k-th one on, of k_t(g) * r(s,t) / n_t
RECURSIVE ExpectedFrom(_, _, _)
ExpectedFrom(s, g, k) ==
    LET strains == relab.map[s]
        t == strains.keys[k]
    IN  IF k > Len(strains.keys) THEN Zero
        ELSE RatAdd(RatMulInt(RatDivInt(Float(strains.map[t]), NumLines(t)), NumWith(t, g)),
                    ExpectedFrom(s, g, k + 1))

Expected(s, g) == ExpectedFrom(s, g, 1)

\* The total gene_relabs holds for (s, g); an identifier without a total counts for 0,
\* as the empty sum does
Total(s, g) == IF g \in DOMAIN Row(gene_relabs, s) THEN gene_relabs[s][g] ELSE Zero

\* The identifiers of the annotation files, and the three the inputs are made of
Identifiers ==
    {alr, luxS, s_gene} \cup
    UNION {{Identifier(annotations_dir[t][k], args_type) : k \in 1..NumLines(t)} :
           t \in DOMAIN annotations_dir}

\* C1, as claimed: after the loops, for every sample s and every identifier g the
\* total of (s, g) is the sum over the strains t listed under s of k_t(g) * r(s,t) / n_t.
C1_TotalIsSumOfShares_Claimed ==
    Finished => \A s \in DOMAIN relab.map : \A g \in Identifiers : Total(s, g) = Expected(s, g)

\* C1, amended: the same for every identifier g other than "gene"; the lines whose
\* identifier is "gene" count in n_t and get no total.
C1_TotalIsSumOfShares ==
    Finished => \A s \in DOMAIN relab.map :
                  /\ \A g \in Identifiers \ {s_gene} : Total(s, g) = Expected(s, g)
                  /\ s_gene \notin DOMAIN Row(gene_relabs, s)

\* KB1 = 0.6 with the lines [alr, alr] and YL32 = 0.4 with [gene, alr] in sample s1:
\* alr twice in KB1 and shared with YL32 gives 2 * 0.6/2 + 0.4/2 = 0.8
C1_Witness ==
    /\ pc = "done"
    /\ relab.map["s1"].map = [KB1 |-> "0.6", YL32 |-> "0.4"]
    /\ annotations_dir = [KB1 |-> <<alrLine, alrLine>>, YL32 |-> <<headerLine, alrLine>>]
    /\ gene_relabs["s1"] = (alr :> <<4, 5>>)

-----------------------------------------------------------------------------
(* Order of the visits *)

Perms(n) == {p \in [1..n -> 1..n] : \A a, b \in 1..n : a # b => p[a] # p[b]}

Permuted(seq, p) == [k \in 1..Len(seq) |-> seq[p[k]]]

\* The same dictionary iterated in another order
Reordered(d, p) == [keys |-> Permuted(d.keys, p), map |-> d.map]

\* relab with the samples in the order ps and the strains of sample s in the order pt[s]
RelabInOrder(ps, pt) ==
    Reordered([keys |-> relab.keys,
               map  |-> [s \in DOMAIN relab.map |-> Reordered(relab.map[s], pt[s])]], ps)

\* One order of the strains for each sample
StrainOrders ==
    {pt \in [DOMAIN relab.map -> UNION {Perms(Len(relab.map[s].keys)) : s \in DOMAIN relab.map}] :
        \A s \in DOMAIN relab.map : pt[s] \in Perms(Len(relab.map[s].keys))}

\* The directory with the lines of the file of t in the order p
DirInOrder(t, p) == [annotations_dir EXCEPT ![t] = Permuted(@, p)]

Returned(t) ==
    LET list == Values(build_annotation(annotations_dir[t], t, args_type).annotations)[1]
    IN  {list[k] : k \in 1..Len(list)}

\* C3, as claimed: after the loops, gene_relabs[s] holds a total for every identifier
\* build_annotation returned for a strain listed under s.
C3_EveryIdentifierHasTotal_Claimed ==
    Finished => \A p \in Pairs : \A g \in Returned(p[2]) : g \in DOMAIN Row(gene_relabs, p[1])

\* C3, amended: for every such identifier other than "gene".
C3_EveryIdentifierHasTotal ==
    Finished => \A p \in Pairs : \A g \in Returned(p[2]) \ {s_gene} :
                    g \in DOMAIN Row(gene_relabs, p[1])

\* A finished run over a file with the column names and one gene, of abundance 0 in
\* s1: alr has a total, which is 0
C3_Witness ==
    /\ pc = "done"
    /\ annotations_dir["KB1"] = <<headerLine, alrLine>>
    /\ relab.map["s1"].map = [KB1 |-> "0"]
    /\ gene_relabs["s1"] = (alr :> Zero)

\* The table pandas lays out from a dictionary of columns has a blank cell where a
\* column lacks an identifier that another column has
HasBlankCell(table) ==
    \E s \in DOMAIN table : \E g \in UNION {DOMAIN table[x] : x \in DOMAIN table} :
        g \notin DOMAIN table[s]

KeySet(d) == {d.keys[k] : k \in 1..Len(d.keys)}

\* C10: in a run that completes, every sample is aggregated over the same strains, so
\* any two samples have totals for the same identifiers and the table written has no
\* blank cell, whatever the abundances are (0 too).
C10_SamplesShareIdentifiers ==
    /\ \A s1, s2 \in DOMAIN relab.map : KeySet(relab.map[s1]) = KeySet(relab.map[s2])
    /\ Finished => \A s1, s2 \in DOMAIN relab.map :
                      DOMAIN Row(gene_relabs, s1) = DOMAIN Row(gene_relabs, s2)
    /\ outfile # <<>> => ~HasBlankCell(outfile[1])

\* A written table of two samples where KB1 is 0 in s1 and 0.6 in s2, and YL32 the
\* other way round
C10_Witness ==
    /\ outfile # <<>>
    /\ relab.keys = <<"s1", "s2">>
    /\ relab.map["s1"].map = [KB1 |-> "0", YL32 |-> "0.6"]
    /\ relab.map["s2"].map = [KB1 |-> "0.6", YL32 |-> "0"]
    /\ DOMAIN outfile[1] = {"s1", "s2"}
    /\ DOMAIN outfile[1]["s1"] = {alr, luxS}

====
